---- MODULE Spec2Model ----
(***************************************************************************)
(* Housing-deposit cashflow simulator and random plan search (src/opt.py). *)
(*                                                                         *)
(* simulate() is modelled statement block by statement block: one action   *)
(* per block of the loop body, in the order the blocks appear in the       *)
(* source.  random_plan_search() is the loop around it.                    *)
(*                                                                         *)
(* Numbers.  The program computes in binary floating point.  The model     *)
(* computes in exact rationals <<numerator, denominator>> (normalised,     *)
(* denominator > 0).  Every parameter set below uses amounts that are      *)
(* integers and rates that are dyadic fractions (0, 1/2, 1), for which the *)
(* program's float arithmetic is exact too, so both compute the same       *)
(* values.                                                                 *)
(*                                                                         *)
(* Parameters.  The module-level PARAMETERS block of the source ("edit     *)
(* these") is the record `par`, fixed at start-up; YEARS, TERM, PMT, ...   *)
(* read it.  The literal 19 (purchase window) and -1e30 are not editable   *)
(* parameters and stay as in the source.                                   *)
(***************************************************************************)
EXTENDS Integers, Sequences, FiniteSets, TLC

VARIABLES par,            \* the PARAMETERS block (lines 11-24)
          B_list,         \* simulate argument
          buy_list,       \* simulate argument
          p5,             \* simulate argument (rational)
          pc,             \* position in simulate / random_plan_search ("raised": left by an exception)
          year,           \* loop variable of simulate (0-based, as in the source)
          balance,        \* local of simulate (rational)
          cohorts,        \* local of simulate: sequence of Cohort records
          houses,         \* local of simulate
          balances,       \* local of simulate: recorded year-end balances
          houses_bought,  \* local of simulate
          ret,            \* <<>> until simulate returns, then <<[feasible, final_balance]>>
          it,             \* loop variable of random_plan_search
          best,           \* <<>> is None, else <<candidate tuple>>
          best_value,     \* local of random_plan_search (rational)
          seen            \* history: results of all simulate calls made by the search so far

vars == <<par, B_list, buy_list, p5, pc, year, balance, cohorts, houses,
          balances, houses_bought, ret, it, best, best_value, seen>>

simVars    == <<balance, cohorts, houses, balances, houses_bought, year, ret>>
searchVars == <<it, best, best_value, seen>>
inputVars  == <<par, B_list, buy_list, p5>>

-----------------------------------------------------------------------------
(* Bounds of the model *)

\* largest issuance count drawn for one year
MaxB == 2
\* a plan passed to simulate issues contracts in its first MaxIssueYears
\* years only
MaxIssueYears == 2
\* iterations of random_plan_search
MaxIters == 3

-----------------------------------------------------------------------------
(* Exact rational arithmetic *)

Abs(n) == IF n < 0 THEN -n ELSE n

Min(a, b) == IF a <= b THEN a ELSE b

RECURSIVE GCD(_, _)
GCD(a, b) == IF b = 0 THEN a ELSE GCD(b, a % b)

Norm(n, d) == LET g == GCD(Abs(n), d) IN <<n \div g, d \div g>>

R(n)       == <<n, 1>>
Zero       == R(0)
One        == R(1)
Half       == <<1, 2>>
RAdd(a, b) == Norm(a[1] * b[2] + b[1] * a[2], a[2] * b[2])
RSub(a, b) == Norm(a[1] * b[2] - b[1] * a[2], a[2] * b[2])
RMul(a, b) == Norm(a[1] * b[1], a[2] * b[2])
RDiv(a, b) == IF b[1] > 0 THEN Norm(a[1] * b[2], a[2] * b[1])
                          ELSE Norm(-(a[1] * b[2]), a[2] * (-b[1]))
RLt(a, b)  == a[1] * b[2] < b[1] * a[2]
RLe(a, b)  == a[1] * b[2] <= b[1] * a[2]

RECURSIVE RPow(_, _)
RPow(a, n) == IF n = 0 THEN One ELSE RMul(a, RPow(a, n - 1))

RECURSIVE RSum(_)
RSum(s) == IF s = <<>> THEN Zero ELSE RAdd(Head(s), RSum(Tail(s)))

-----------------------------------------------------------------------------
(* PARAMETERS, lines 11-24 *)

YEARS          == par.YEARS
TERM           == par.TERM
PMT            == par.PMT
INIT           == par.INIT
HOUSE_PRICE    == par.HOUSE_PRICE
CHURN_RATE     == par.CHURN_RATE
REFUND_RATIO   == par.REFUND_RATIO
RETURN_RATE    == par.RETURN_RATE
P5_MIN         == par.P5_MIN
P5_MAX         == par.P5_MAX
INITIAL_CASH   == par.INITIAL_CASH
MAX_B_PER_YEAR == par.MAX_B_PER_YEAR

\* buy allowed for year indices 0..18 (the literal of lines 88 and 164)
BUY_YEARS == 19
\* up to 10 purchases in a sampled plan (the literal of line 162)
MAX_BUYS == 10

\* best_value = -1e30: below every balance a run can produce.  As the pair
\* <<-1, 0>> it compares below every rational under RLt / RLe.
NEG_1E30 == <<-1, 0>>

\* Scenario of spec section 8 / the parameters edited to: horizon 5,
\* installment 100, no deposit, unaffordable house, no churn, rate 0.
NoChurnScenario ==
  [YEARS |-> 5, TERM |-> 20, PMT |-> 100, INIT |-> 0, HOUSE_PRICE |-> 10000,
   CHURN_RATE |-> Zero, REFUND_RATIO |-> Half, RETURN_RATE |-> Zero,
   P5_MIN |-> Zero, P5_MAX |-> Zero, INITIAL_CASH |-> 1000, MAX_B_PER_YEAR |-> MaxB]

\* The same with churn 1.0 and refund ratio 0.5.
FullChurnScenario ==
  [NoChurnScenario EXCEPT !.CHURN_RATE = One]

\* The shipped parameters scaled down: amounts in millions (PMT 24, INIT 300,
\* HOUSE_PRICE 800, INITIAL_CASH 1000), horizon 4 and term 2 in place of
\* 40 and 20, dyadic rates in place of 0.10 / 0.70 / 0.03 / 0.03..0.07.
ScaledDefaults ==
  [YEARS |-> 4, TERM |-> 2, PMT |-> 24, INIT |-> 300, HOUSE_PRICE |-> 800,
   CHURN_RATE |-> Half, REFUND_RATIO |-> Half, RETURN_RATE |-> Half,
   P5_MIN |-> Zero, P5_MAX |-> Half, INITIAL_CASH |-> 1000, MAX_B_PER_YEAR |-> MaxB]

\* Zero rates, cash just below the house price.
ZeroRates ==
  [YEARS |-> 4, TERM |-> 2, PMT |-> 24, INIT |-> 300, HOUSE_PRICE |-> 800,
   CHURN_RATE |-> Zero, REFUND_RATIO |-> Half, RETURN_RATE |-> Zero,
   P5_MIN |-> Zero, P5_MAX |-> Zero, INITIAL_CASH |-> 780, MAX_B_PER_YEAR |-> MaxB]

\* Parameters of the search runs.  P5_MIN = P5_MAX, so random.uniform(P5_MIN,
\* P5_MAX) has the single outcome P5_MIN.  The horizon is shorter than the
\* purchase window of 19 years that line 164 draws from, so a draw can hold
\* a year the list `buy` (of length YEARS) does not have.
SearchParams ==
  [YEARS |-> 2, TERM |-> 2, PMT |-> 100, INIT |-> 300, HOUSE_PRICE |-> 800,
   CHURN_RATE |-> Half, REFUND_RATIO |-> Half, RETURN_RATE |-> Half,
   P5_MIN |-> Zero, P5_MAX |-> Zero, INITIAL_CASH |-> 1000, MAX_B_PER_YEAR |-> 1]

ParamSets == {NoChurnScenario, FullChurnScenario, ScaledDefaults, ZeroRates}

-----------------------------------------------------------------------------
(* class Cohort, lines 30-44 *)

Cohort(start_year, count, is_condition2) ==
  [start_year    |-> start_year,
   count         |-> R(count),
   is_condition2 |-> is_condition2,
   cum_paid      |-> IF is_condition2 THEN R(INIT) ELSE Zero]

\* mutant: `cum_paid = PMT` in place of `cum_paid += PMT`
receive_annual_payment_Assign(c) == [c EXCEPT !.cum_paid = R(PMT)]

receive_annual_payment(c) == [c EXCEPT !.cum_paid = RAdd(@, R(PMT))]

(* maturity_payout_per_person, lines 46-62.  The body reads the global TERM, *)
(* not its `term` parameter.                                                *)
maturity_payout_per_person(is_condition2, term, return_rate) ==
  LET r   == return_rate
      ann == IF r = Zero
               THEN R(PMT * TERM)
               ELSE RMul(R(PMT), RDiv(RSub(RPow(RAdd(One, r), TERM), One), r))
  IN IF is_condition2
       THEN RAdd(ann, RMul(R(INIT), RPow(RAdd(One, r), TERM)))
       ELSE ann

-----------------------------------------------------------------------------
(* simulate, lines 64-152 *)

\* mutant: the `count <= 0` guard dropped
IsActive_Always(c) == TRUE

\* `if c.count <= 0: continue` (lines 103, 119, 133)
IsActive(c) == RLt(Zero, c.count)

\* mutant: the purchase block moved after inflow and growth
NextPc_BuyAfterGrowth(p) ==
  CASE p = "issue"  -> "accrue"
    [] p = "accrue" -> "grow"
    [] p = "grow"   -> "buy"
    [] p = "buy"    -> "churn"
    [] p = "churn"  -> "mature"
    [] p = "mature" -> "record"

\* order of the statement blocks of the loop body (lines 83-142)
NextPc(p) ==
  CASE p = "issue"  -> "buy"
    [] p = "buy"    -> "accrue"
    [] p = "accrue" -> "grow"
    [] p = "grow"   -> "churn"
    [] p = "churn"  -> "mature"
    [] p = "mature" -> "record"

\* mutant: the affordability test dropped
CanAfford_Always(b) == TRUE

\* line 89
CanAfford(b) == RLe(R(HOUSE_PRICE), b)

\* mutant: simple interest on the initial cash in place of compounding
Grow_Simple(b, p) == RAdd(b, RMul(R(INITIAL_CASH), p))

\* line 114
Grow(b, p) == RMul(b, RAdd(One, p))

\* mutant: refund on the cumulative payments before this year's installment
RefundPer_BeforeAccrual(c) == RMul(REFUND_RATIO, RSub(c.cum_paid, R(PMT)))

\* lines 121-126
Exits(c)     == RMul(c.count, CHURN_RATE)
RefundPer(c) == RMul(REFUND_RATIO, c.cum_paid)
Churns(c)    == IsActive(c) /\ RLt(Zero, Exits(c))

\* line 135
Matures(c, y) == IsActive(c) /\ (y - c.start_year) + 1 >= TERM

\* mutant: the feasibility test dropped
IsNegative_Never(b) == FALSE

\* line 145
IsNegative(b) == RLt(b, Zero)

\* lines 73-77
Call ==
  /\ pc = "call"
  /\ balance' = R(INITIAL_CASH)
  /\ cohorts' = <<>>
  /\ houses' = 0
  /\ balances' = <<>>
  /\ houses_bought' = [y \in 1..YEARS |-> 0]
  /\ year' = 0
  /\ IF YEARS > 0
       THEN /\ pc' = "issue"
            /\ ret' = <<>>
       ELSE \* range(YEARS) is empty: lines 151-152
            /\ pc' = "done"
            /\ ret' = <<[feasible |-> TRUE, final_balance |-> R(INITIAL_CASH)]>>
  /\ UNCHANGED <<inputVars, searchVars>>

\* lines 84-85
Issue ==
  /\ pc = "issue"
  /\ cohorts' = IF B_list[year + 1] > 0
                  THEN Append(cohorts, Cohort(year, B_list[year + 1], FALSE))
                  ELSE cohorts
  /\ pc' = NextPc("issue")
  /\ UNCHANGED <<inputVars, searchVars, balance, houses, balances, houses_bought, year, ret>>

\* lines 88-98
Buy ==
  /\ pc = "buy"
  /\ IF year < BUY_YEARS /\ buy_list[year + 1] = 1
       THEN IF CanAfford(balance)
              THEN /\ balance' = RSub(balance, R(HOUSE_PRICE))
                   /\ houses' = houses + 1
                   /\ houses_bought' = [houses_bought EXCEPT ![year + 1] = 1]
                   /\ cohorts' = Append(cohorts, Cohort(year, 1, TRUE))
              ELSE /\ houses_bought' = [houses_bought EXCEPT ![year + 1] = 0]
                   /\ UNCHANGED <<balance, houses, cohorts>>
       ELSE UNCHANGED <<balance, houses, houses_bought, cohorts>>
  /\ pc' = NextPc("buy")
  /\ UNCHANGED <<inputVars, searchVars, balances, year, ret>>

\* lines 101-111
Accrue ==
  /\ pc = "accrue"
  /\ LET inflow == RSum([i \in 1..Len(cohorts) |->
                           IF IsActive(cohorts[i])
                             THEN RMul(cohorts[i].count, R(PMT))
                             ELSE Zero])
     IN balance' = RAdd(balance, inflow)
  /\ cohorts' = [i \in 1..Len(cohorts) |->
                   IF IsActive(cohorts[i])
                     THEN receive_annual_payment(cohorts[i])
                     ELSE cohorts[i]]
  /\ pc' = NextPc("accrue")
  /\ UNCHANGED <<inputVars, searchVars, houses, balances, houses_bought, year, ret>>

\* line 114
Growth ==
  /\ pc = "grow"
  /\ balance' = Grow(balance, p5)
  /\ pc' = NextPc("grow")
  /\ UNCHANGED <<inputVars, searchVars, cohorts, houses, balances, houses_bought, year, ret>>

\* lines 117-128
Churn ==
  /\ pc = "churn"
  /\ LET total_refund == RSum([i \in 1..Len(cohorts) |->
                                 IF Churns(cohorts[i])
                                   THEN RMul(Exits(cohorts[i]), RefundPer(cohorts[i]))
                                   ELSE Zero])
     IN balance' = RSub(balance, total_refund)
  /\ cohorts' = [i \in 1..Len(cohorts) |->
                   IF Churns(cohorts[i])
                     THEN [cohorts[i] EXCEPT !.count = RSub(@, Exits(cohorts[i]))]
                     ELSE cohorts[i]]
  /\ pc' = NextPc("churn")
  /\ UNCHANGED <<inputVars, searchVars, houses, balances, houses_bought, year, ret>>

\* lines 131-140
Mature ==
  /\ pc = "mature"
  /\ LET maturity_payout ==
           RSum([i \in 1..Len(cohorts) |->
                   IF Matures(cohorts[i], year)
                     THEN RMul(cohorts[i].count,
                               maturity_payout_per_person(cohorts[i].is_condition2,
                                                          TERM, RETURN_RATE))
                     ELSE Zero])
     IN balance' = RSub(balance, maturity_payout)
  /\ cohorts' = [i \in 1..Len(cohorts) |->
                   IF Matures(cohorts[i], year)
                     THEN [cohorts[i] EXCEPT !.count = Zero]
                     ELSE cohorts[i]]
  /\ pc' = NextPc("mature")
  /\ UNCHANGED <<inputVars, searchVars, houses, balances, houses_bought, year, ret>>

\* lines 142-152: record the year-end balance, return False on a negative
\* balance, else go to the next year or return True after the last one
Record ==
  /\ pc = "record"
  /\ balances' = Append(balances, balance)
  /\ IF IsNegative(balance)
       THEN /\ ret' = <<[feasible |-> FALSE, final_balance |-> balance]>>
            /\ pc' = "done"
            /\ year' = year
       ELSE IF year + 1 < YEARS
              THEN /\ year' = year + 1
                   /\ pc' = "issue"
                   /\ ret' = ret
              ELSE /\ ret' = <<[feasible |-> TRUE,
                                final_balance |-> balances'[Len(balances')]]>>
                   /\ pc' = "done"
                   /\ year' = year
  /\ UNCHANGED <<inputVars, searchVars, balance, cohorts, houses, houses_bought>>

Simulate == Call \/ Issue \/ Buy \/ Accrue \/ Growth \/ Churn \/ Mature \/ Record

-----------------------------------------------------------------------------
(* A direct call simulate(B_list, buy_list, p5) *)

Plans(p) == {b \in [1..p.YEARS -> 0..MaxB] :
               \A y \in 1..p.YEARS : y > MaxIssueYears => b[y] = 0}

Init ==
  /\ par \in ParamSets
  /\ B_list \in Plans(par)
  /\ buy_list \in [1..par.YEARS -> {0, 1}]
  /\ p5 \in {par.P5_MIN, par.P5_MAX}
  /\ pc = "call"
  /\ year = 0
  /\ balance = Zero
  /\ cohorts = <<>>
  /\ houses = 0
  /\ balances = <<>>
  /\ houses_bought = <<>>
  /\ ret = <<>>
  /\ it = 0
  /\ best = <<>>
  /\ best_value = NEG_1E30
  /\ seen = {}

Next == Simulate

Spec == Init /\ [][Next]_vars

-----------------------------------------------------------------------------
(* random_plan_search, lines 155-174 *)

\* the `iterations` argument (line 155)
iterations == MaxIters

\* line 160: B = [randint(0, MAX_B_PER_YEAR) for _ in range(YEARS)], one
\* independent draw per year
SampledB == [1..YEARS -> 0..MAX_B_PER_YEAR]

\* lines 162-166: k = randint(0, 10); years = sample(range(0, 19), k) is a
\* list of k distinct years below 19 in random order, and the loop writes
\* buy[y] = 1 for each.  WrittenYears(n) are the sets of at most n such years
\* that the list buy (indices 0..YEARS-1) can hold.
WrittenYears(n) ==
  {S \in SUBSET (0..(Min(BUY_YEARS, YEARS) - 1)) : Cardinality(S) \in 0..n}

\* the draws whose years all are indices of buy: the loop of lines 165-166
\* completes
SampledYears == WrittenYears(MAX_BUYS)

\* line 166: some draw of lines 162-164 holds a year y >= YEARS, for which
\* buy[y] = 1 raises IndexError
IndexErrorPossible == MAX_BUYS >= 1 /\ YEARS < BUY_YEARS

\* the years written before the loop reaches such a y: the draw holds y, so
\* at most MAX_BUYS - 1 others, and any of them can come before y in the list
YearsBeforeIndexError == WrittenYears(MAX_BUYS - 1)

\* line 167: p5 = uniform(P5_MIN, P5_MAX); the end points of the interval
\* (the only values when P5_MIN = P5_MAX)
SampledP5 == {P5_MIN, P5_MAX}

\* mutant: `feasible and` dropped from the acceptance test
Improves_IgnoresFeasible(feasible, final_bal, bv) == RLt(bv, final_bal)

\* line 169
Improves(feasible, final_bal, bv) == feasible /\ RLt(bv, final_bal)

\* lines 160-167: draw B, buy and p5
Sample ==
  /\ pc = "sample"
  /\ \E B \in SampledB, S \in SampledYears, q \in SampledP5 :
       /\ B_list' = B
       /\ buy_list' = [y \in 1..YEARS |-> IF (y - 1) \in S THEN 1 ELSE 0]
       /\ p5' = q
  /\ pc' = "call"
  /\ UNCHANGED <<par, simVars, searchVars>>

\* lines 160-166: B is drawn, buy is written up to a year it has no index
\* for, and the IndexError of line 166 ends random_plan_search; p5 and the
\* results of the previous iteration keep their values
SampleIndexError ==
  /\ pc = "sample"
  /\ IndexErrorPossible
  /\ \E B \in SampledB, S \in YearsBeforeIndexError :
       /\ B_list' = B
       /\ buy_list' = [y \in 1..YEARS |-> IF (y - 1) \in S THEN 1 ELSE 0]
  /\ pc' = "raised"
  /\ UNCHANGED <<par, p5, simVars, searchVars>>

\* lines 168-171 and the loop header of line 158: take the result of
\* simulate, keep it if it improves on best_value, go to the next iteration
Evaluate ==
  /\ pc = "done"
  /\ LET feasible  == ret[1].feasible
         final_bal == ret[1].final_balance
     IN /\ IF Improves(feasible, final_bal, best_value)
             THEN /\ best_value' = final_bal
                  /\ best' = <<[B |-> B_list, buy |-> buy_list, p5 |-> p5,
                                balances |-> balances, final_bal |-> final_bal,
                                houses_bought |-> houses_bought]>>
             ELSE UNCHANGED <<best, best_value>>
        /\ seen' = seen \cup {[feasible |-> feasible, final_bal |-> final_bal]}
  /\ it' = it + 1
  /\ pc' = IF it + 1 < iterations THEN "sample" ELSE "returned"
  /\ UNCHANGED <<inputVars, simVars>>

SearchInit ==
  /\ par = SearchParams
  /\ B_list = <<>>
  /\ buy_list = <<>>
  /\ p5 = Zero
  /\ pc = IF iterations > 0 THEN "sample" ELSE "returned"
  /\ year = 0
  /\ balance = Zero
  /\ cohorts = <<>>
  /\ houses = 0
  /\ balances = <<>>
  /\ houses_bought = <<>>
  /\ ret = <<>>
  /\ it = 0
  /\ best = <<>>
  /\ best_value = NEG_1E30
  /\ seen = {}

SearchNext == Sample \/ SampleIndexError \/ Simulate \/ Evaluate

SearchSpec == SearchInit /\ [][SearchNext]_vars

-----------------------------------------------------------------------------
(* Properties *)

\* the balance the purchase test of this year reads: the previous year-end
\* balance, or the initial cash in the first year
PrevBalance == IF year = 0 THEN R(INITIAL_CASH) ELSE balances[year]

NonNegative(b) == RLe(Zero, b)

\* C1: simulate stops at the first negative year-end balance and reports
\* infeasible: the flag is False iff the last recorded balance is negative,
\* then all earlier ones are >= 0, nothing was simulated after it and it is
\* the returned final balance; the flag is True iff YEARS balances were
\* recorded and all are >= 0.
C1_StrictVerdict ==
  LET n == Len(balances) IN
  /\ \A i \in 1..(n - 1) : NonNegative(balances[i])
  /\ (n > 0 /\ IsNegative(balances[n])) => pc = "done"
  /\ pc = "done" =>
       /\ ~ret[1].feasible <=> (n > 0 /\ RLt(balances[n], Zero))
       /\ ~ret[1].feasible => /\ n = year + 1
                              /\ ret[1].final_balance = balances[n]
       /\ ret[1].feasible <=> (n = YEARS /\ \A i \in 1..n : NonNegative(balances[i]))

C1_Witness ==
  /\ pc = "done"
  /\ ~ret[1].feasible
  /\ Len(balances) > 1
  /\ Len(balances) < YEARS

\* C2 as stated: the loop body runs issue, accrue, grow, buy, churn, mature,
\* record, so the purchase test sees this year's inflow and growth.
C2_BuyAfterGrowth ==
  [][ /\ pc = "issue"  => pc' = "accrue"
      /\ pc = "accrue" => pc' = "grow"
      /\ pc = "grow"   => pc' = "buy"
      /\ pc = "buy"    => pc' = "churn" ]_vars

\* C2 amended: the loop body runs issue, buy, accrue, grow, churn, mature,
\* record; the purchase test reads the balance before this year's inflow and
\* growth, so a house is bought in a year iff the year is below 19, the plan
\* signals a purchase and the previous year-end balance (the initial cash in
\* the first year) is at least the house price.
C2_BuyBeforeInflow ==
  [][ /\ pc = "issue"  => pc' = "buy" /\ balance' = balance
      /\ pc = "buy"    => /\ pc' = "accrue"
                          /\ balance = PrevBalance
                          /\ houses_bought'[year + 1] = 1 <=>
                               (year < BUY_YEARS /\ buy_list[year + 1] = 1
                                  /\ RLe(R(HOUSE_PRICE), PrevBalance))
      /\ pc = "accrue" => pc' = "grow"
      /\ pc = "grow"   => pc' = "churn"
      /\ pc = "churn"  => pc' = "mature"
      /\ pc = "mature" => pc' = "record"
      /\ pc = "record" => balances' = Append(balances, balance) ]_vars

\* a purchase signalled and refused although the balance after this year's
\* inflow and growth covers the price
C2_Witness ==
  /\ pc = "churn"
  /\ buy_list[year + 1] = 1
  /\ houses_bought[year + 1] = 0
  /\ RLt(PrevBalance, R(HOUSE_PRICE))
  /\ RLe(R(HOUSE_PRICE), balance)

\* C3: every run records a trajectory of length YEARS, also when the balance
\* goes negative.
C3_FullTrajectory ==
  pc = "done" => Len(balances) = YEARS

\* C4: a purchase attempt with balance < HOUSE_PRICE changes nothing; the
\* balance is never negative right after the purchase block; a house is
\* recorded as bought only if exactly HOUSE_PRICE was deducted.
C4_FailedPurchase ==
  [][ pc = "buy" =>
        /\ (buy_list[year + 1] = 1 /\ RLt(balance, R(HOUSE_PRICE))) =>
             /\ balance' = balance
             /\ houses' = houses
             /\ houses_bought'[year + 1] = 0
             /\ cohorts' = cohorts
        /\ NonNegative(balance')
        /\ houses_bought'[year + 1] = 1 =>
             /\ balance' = RSub(balance, R(HOUSE_PRICE))
             /\ houses' = houses + 1 ]_vars

\* right after a refused purchase attempt
C4_Witness ==
  /\ pc = "accrue"
  /\ year < BUY_YEARS
  /\ buy_list[year + 1] = 1
  /\ houses_bought[year + 1] = 0
  /\ RLt(balance, R(HOUSE_PRICE))
  /\ RLt(Zero, balance)

FeasibleSeen == {s \in seen : s.feasible}

\* C5: best is None iff no feasible candidate was evaluated so far; else it
\* is a feasible evaluated candidate whose final balance is best_value, the
\* largest among the feasible candidates evaluated; best_value never
\* decreases, best is replaced only by a feasible candidate with a strictly
\* greater final balance, and every evaluation, of a feasible or an
\* infeasible candidate, is followed by the next iteration or by the return
\* of best: random_plan_search is left by an exception only from the draw of
\* line 166, never from a candidate's simulation or evaluation.
C5_BestSoFar ==
  /\ [] /\ (best = <<>>) <=> (FeasibleSeen = {})
        /\ best = <<>> => best_value = NEG_1E30
        /\ best # <<>> =>
             /\ best[1].final_bal = best_value
             /\ [feasible |-> TRUE, final_bal |-> best_value] \in seen
             /\ \A s \in FeasibleSeen : RLe(s.final_bal, best_value)
             /\ Len(best[1].balances) = YEARS
             /\ \A i \in 1..YEARS : NonNegative(best[1].balances[i])
             /\ best[1].balances[YEARS] = best_value
  /\ [][ /\ RLe(best_value, best_value')
         /\ best' # best => /\ pc = "done"
                            /\ ret[1].feasible
                            /\ RLt(best_value, ret[1].final_balance)
                            /\ best'[1].final_bal = ret[1].final_balance
         /\ pc = "done" => /\ it' = it + 1
                           /\ pc' \in {"sample", "returned"}
         /\ pc' = "raised" => pc = "sample" ]_vars

\* the search has returned after evaluating an infeasible candidate, a
\* feasible one below the best, and a best candidate in which one purchase
\* was made and another attempt was refused as unaffordable
C5_Witness ==
  /\ pc = "returned"
  /\ best # <<>>
  /\ \E s \in seen : ~s.feasible
  /\ \E s \in seen : s.feasible /\ RLt(s.final_bal, best_value)
  /\ \E y \in 1..YEARS : best[1].houses_bought[y] = 1
  /\ \E y \in 1..YEARS : best[1].buy[y] = 1 /\ best[1].houses_bought[y] = 0

AllZero(s) == \A i \in 1..Len(s) : s[i] = 0

\* C6 as stated: with zero issuance in every year, and any buy_list, the
\* final balance is INITIAL_CASH * (1 + p5)^YEARS.
C6_ZeroIssuance ==
  (pc = "done" /\ AllZero(B_list)) =>
     ret[1].final_balance = RMul(R(INITIAL_CASH), RPow(RAdd(One, p5), YEARS))

\* C6 amended: with zero issuance in every year and no purchase made, the
\* run is feasible and the final balance is INITIAL_CASH * (1 + p5)^YEARS;
\* and no cohort ever exists.
C6_ZeroIssuanceNoPurchase ==
  /\ (AllZero(B_list) /\ AllZero(houses_bought)) => cohorts = <<>>
  /\ (pc = "done" /\ AllZero(B_list) /\ AllZero(houses_bought)) =>
       /\ ret[1].feasible
       /\ ret[1].final_balance = RMul(R(INITIAL_CASH), RPow(RAdd(One, p5), YEARS))

C6_Witness ==
  /\ pc = "done"
  /\ AllZero(B_list)
  /\ AllZero(houses_bought)
  /\ RLt(Zero, p5)

\* C7: a cohort's count is >= 0 and never increases, its cum_paid never
\* decreases, and once its count is zero the cohort never changes again.
C7_CohortMonotone ==
  /\ [] \A i \in 1..Len(cohorts) : NonNegative(cohorts[i].count)
  /\ [][ \A i \in 1..Len(cohorts) :
           /\ i <= Len(cohorts')
           /\ cohorts'[i].start_year = cohorts[i].start_year
           /\ RLe(cohorts'[i].count, cohorts[i].count)
           /\ RLe(cohorts[i].cum_paid, cohorts'[i].cum_paid)
           /\ cohorts[i].count = Zero => cohorts'[i] = cohorts[i] ]_vars

\* a matured or churned-out cohort that the accrual of a later year has passed over
C7_Witness ==
  /\ pc = "grow"
  /\ \E i \in 1..Len(cohorts) :
       /\ cohorts[i].count = Zero
       /\ cohorts[i].start_year < year
  /\ \E i \in 1..Len(cohorts) : RLt(Zero, cohorts[i].count)

\* C8: with return_rate = 0 the payout per person is PMT * term for the
\* term passed, plus INIT for a Deposit-type cohort.
C8_ZeroRatePayout ==
  \A t \in 1..(TERM + 1) :
     /\ maturity_payout_per_person(FALSE, t, Zero) = R(PMT * t)
     /\ maturity_payout_per_person(TRUE, t, Zero) = R(PMT * t + INIT)

RECURSIVE SumFirst(_, _)
SumFirst(s, n) == IF n = 0 THEN 0 ELSE s[n] + SumFirst(s, n - 1)

\* C9: full churn.  With issuance <<1,0,0,0,0>> the refund of year 1 is on
\* cum_paid = 100, the balance is 1050 in every year and the run is
\* feasible.  In general the installment is accrued before churn, and a
\* cohort that churn has emptied adds nothing later: after n years the
\* balance is the initial cash plus half an installment per contract issued.
C9_FullChurn ==
  par = FullChurnScenario =>
    /\ \A n \in 1..Len(balances) :
         balances[n] = R(INITIAL_CASH + 50 * SumFirst(B_list, n))
    /\ pc = "churn" => \A i \in 1..Len(cohorts) :
                          cohorts[i].start_year = year => cohorts[i].cum_paid = R(PMT)
    /\ pc \in {"mature", "record", "done"} =>
         \A i \in 1..Len(cohorts) : cohorts[i].count = Zero
    /\ (B_list = <<1, 0, 0, 0, 0>> /\ pc = "done") =>
         /\ balances = <<R(1050), R(1050), R(1050), R(1050), R(1050)>>
         /\ ret[1] = [feasible |-> TRUE, final_balance |-> R(1050)]
         /\ AllZero(houses_bought)

C9_Witness ==
  /\ par = FullChurnScenario
  /\ B_list = <<1, 0, 0, 0, 0>>
  /\ pc = "done"
  /\ cohorts[1].count = Zero
  /\ cohorts[1].cum_paid = R(100)

\* C10: no churn.  With issuance <<k,0,0,0,0>> and any buy_list the balance
\* after year n is 1000 + n * k * 100 and the cohort's cum_paid is n * 100;
\* for k = 1 the balances are 1100 .. 1500, the run is feasible, the final
\* balance is 1500 and no house is bought.
C10_NoChurn ==
  (par = NoChurnScenario /\ B_list[1] > 0 /\ AllZero(Tail(B_list))) =>
    /\ \A n \in 1..Len(balances) :
         balances[n] = R(INITIAL_CASH + n * B_list[1] * PMT)
    /\ pc \in {"grow", "churn", "mature", "record", "done"} =>
         /\ Len(cohorts) = 1
         /\ cohorts[1].cum_paid = R((year + 1) * PMT)
         /\ cohorts[1].count = R(B_list[1])
    /\ (B_list[1] = 1 /\ pc = "done") =>
         /\ balances = <<R(1100), R(1200), R(1300), R(1400), R(1500)>>
         /\ ret[1] = [feasible |-> TRUE, final_balance |-> R(1500)]
         /\ houses = 0
         /\ AllZero(houses_bought)

C10_Witness ==
  /\ par = NoChurnScenario
  /\ B_list = <<1, 0, 0, 0, 0>>
  /\ \E y \in 1..5 : buy_list[y] = 1
  /\ pc = "done"
  /\ ret[1].final_balance = R(1500)

====
